---- MODULE Spec2Model ----
(***************************************************************************)
(* Dominion Weighted Card Picker (dwcp.py): the pile builder               *)
(* create_randomizer_piles and the weighted selector pick_random_cards     *)
(* with its cap rule alchemy_card_check, the interactive reroll pass, the  *)
(* Liaison/Omen scan, the landscape draw, and the save prompt of dwcp()    *)
(* with save_picked_cards.                                                 *)
(*                                                                         *)
(* Cards are numbers.  Kingdom cards are KCards, landscape cards LCards.   *)
(* A random draw is a nondeterministic choice among the outcomes of        *)
(* positive probability; operator input is a choice among token lists.     *)
(***************************************************************************)
EXTENDS Integers, Sequences, FiniteSets, TLC

\* ------------------------------------------------------------------ bounds
\* largest num_kingdom passed to pick_random_cards
MaxKingdom == 4
\* most tokens in one response to the reroll prompt
MaxAnsw == 2
\* largest pickTimes stored in the yaml files at the start of a run
MaxPickTimes == 1

\* ------------------------------------------------------- program constants
\* "missing = 10 - selectedCards"
KingdomSlots == 10
\* "if alchemyCards >= 3": the cap rule is inert from here on
AlchemyMax == 3
\* "if 3 - alchemyCards <= missing": the wanted number of Alchemy cards
AlchemyMin == 3
\* "if ... and alchemyCards >= 1": other sets are refused from here on
AlchemyStarted == 1
\* num_landscape = random.randrange(3)
LandscapeRange == 3

\* Python's None for ally_card / prophecy_card, and "no card drawn yet"
None == 0

\* ---------------------------------------------------------- the card files
\* SETNAME_TO_YAMLNAME, in iteration order ("base" precedes "alchemy")
SetNames == <<"base", "alchemy">>

\* dSet["cards"] of each file, in file order
DSetCards(setname) == IF setname = "base" THEN <<1, 2>> ELSE <<3, 4, 5, 6>>

KCards == 1..6

\* kcard["set"]: the set a kingdom card is tagged with
CardSet(c) == IF c \in {1, 2} THEN "base" ELSE "alchemy"

\* card['name'], as its rank in the ordering of names; cards 1 (base) and 4
\* (alchemy) carry the same name
CardName(c) == <<3, 5, 1, 3, 4, 6>>[c]

\* kcard.get('isLiaison') / kcard.get('isOmen')
IsLiaison(c) == c \in {1, 5, 6}
IsOmen(c) == c \in {2, 3, 5}

\* the landscape sections of each file, flattened in the iteration order of
\* LANDSCAPE_NAMES_TO_NAME (allies, events, ..., prophecies, ..., ways)
DSetLandscapes(setname) == IF setname = "base" THEN <<9, 7>> ELSE <<10, 11, 8>>

LCards == 7..11

\* landscape["type"]
LType(l) == CASE l = 7 -> "event" [] l = 8 -> "way" [] l \in {9, 10} -> "ally"
              [] OTHER -> "prophecy"

\* ------------------------------------------------------------------- state
VARIABLES
    yamlPickTimes,   \* the pickTimes each file stores for its cards and landscapes
    yamlToPick,      \* the toPick each file stores for its cards and landscapes
    yamlLandscapes,  \* the landscape cards the files list
    yamlStatus,      \* per set file: "ok", "missing" or "malformed"
    tags,            \* ["set"] and ["type"] of the loaded card and landscape objects
    reroll_answ,     \* answ of the reroll prompt while it is processed, else <<>>
    randpiles,       \* the randomizer piles: kingdoms, landscapes, allies, prophecies
    pickTimes,       \* ['pickTimes'] of the loaded card and landscape objects
    picked,          \* picked["kingdoms"], picked["landscapes"]
    weights,         \* the weight table, parallel to randpiles.kingdoms
    primaryCount,    \* num_kingdom as passed by the caller
    num_kingdom,     \* num_kingdom, overwritten by each reroll response
    num_landscape,   \* num_landscape as passed by the caller, known once it is read
    alchemyCards,    \* the cap counter
    numCardsPicked,  \* accepted draws of the current round
    kc,              \* the card of the last random.choices, while the inner loop runs
    rc,              \* the verdict of the last alchemy_card_check, while the loop runs
    ally_card,       \* the Ally drawn by the scan, or None
    prophecy_card,   \* the Prophecy drawn by the scan, or None
    ki,              \* position of the scan loop in picked["kingdoms"]
    removed,         \* history: the cards a reroll popped from picked["kingdoms"]
    pc,              \* where the run is
    err              \* the exception that ended the run, "" if none

vars == <<yamlPickTimes, yamlToPick, yamlLandscapes, yamlStatus, tags, reroll_answ, randpiles, pickTimes, picked,
          weights, primaryCount, num_kingdom, num_landscape, alchemyCards,
          numCardsPicked, kc, rc, ally_card, prophecy_card, ki, removed, pc, err>>

\* ----------------------------------------------------------------- helpers
Range(s) == {s[i] : i \in 1..Len(s)}

\* list.pop(idx) with a 0-based idx inside the list
Pop(s, idx) == [j \in 1..(Len(s) - 1) |-> IF j <= idx THEN s[j] ELSE s[j + 1]]

\* list.index(x): 0-based position of the first element equal to x
IndexOf(s, x) == (CHOOSE j \in 1..Len(s) : s[j] = x /\ \A k \in 1..(j - 1) : s[k] # x) - 1

\* the cards of a list that satisfy a test, in list order
RECURSIVE Filter(_, _)
Filter(s, keep) ==
    IF s = <<>> THEN <<>>
    ELSE (IF Head(s) \in keep THEN <<Head(s)>> ELSE <<>>) \o Filter(Tail(s), keep)

\* a weight of 1 / pickTimes
Weight_NoPlusOne(pt) == [num |-> 1, den |-> pt]

\* float(1 / (pickTimes + 1)) as the fraction num/den
Weight(pt) == [num |-> 1, den |-> pt + 1]

\* whether random.choices can return the entry with this weight
Positive(w) == w.num > 0 /\ w.den > 0

\* picked["kingdoms"].sort(key=lambda x: x['name']): stable, ascending by name
RECURSIVE InsertByName(_, _)
InsertByName(s, c) ==
    IF s = <<>> THEN <<c>>
    ELSE IF CardName(Head(s)) <= CardName(c) THEN <<Head(s)>> \o InsertByName(Tail(s), c)
    ELSE <<c>> \o s

RECURSIVE SortByName(_)
SortByName(s) ==
    IF s = <<>> THEN <<>>
    ELSE InsertByName(SortByName(SubSeq(s, 1, Len(s) - 1)), s[Len(s)])

\* ------------------------------------------------------------ the cap rule
\* the cap rule with "alchemyCards > 3" for "alchemyCards >= 3"
alchemy_card_check_OffByOne(kingdomCard, selectedCards, nAlchemy) ==
    LET missing == KingdomSlots - selectedCards
    IN  IF nAlchemy > AlchemyMax THEN "NOTHING"
        ELSE IF CardSet(kingdomCard) = "alchemy"
             THEN (IF AlchemyMin - nAlchemy <= missing THEN "ALCHEMY" ELSE "CONTINUE")
        ELSE IF CardSet(kingdomCard) # "alchemy" /\ nAlchemy >= AlchemyStarted
             THEN "CONTINUE"
        ELSE "NOTHING"

\* the cap rule without its test of the card's set: every card counts as Alchemy
alchemy_card_check_AnySet(kingdomCard, selectedCards, nAlchemy) ==
    LET missing == KingdomSlots - selectedCards
    IN  IF nAlchemy >= AlchemyMax THEN "NOTHING"
        ELSE IF AlchemyMin - nAlchemy <= missing THEN "ALCHEMY"
        ELSE "CONTINUE"

\* alchemy_card_check(kingdomCard, selectedCards, alchemyCards)
alchemy_card_check(kingdomCard, selectedCards, nAlchemy) ==
    LET missing == KingdomSlots - selectedCards
    IN  IF nAlchemy >= AlchemyMax THEN "NOTHING"
        ELSE IF CardSet(kingdomCard) = "alchemy"
             THEN (IF AlchemyMin - nAlchemy <= missing THEN "ALCHEMY" ELSE "CONTINUE")
        ELSE IF CardSet(kingdomCard) # "alchemy" /\ nAlchemy >= AlchemyStarted
             THEN "CONTINUE"
        ELSE "NOTHING"

\* ------------------------------------------------------------ initial state
\* The files as a run finds them: which cards are to be picked, whether the
\* files list Prophecy cards and Ally cards at all, and whether each file can
\* be read.  The stored counters run through 0..MaxPickTimes over the cards.
StoredPickTimes == [c \in KCards \cup LCards |-> c % (MaxPickTimes + 1)]

\* the toPick the files store for their landscape cards: an Event and an Ally
\* are marked as not to be picked
LandscapeToPick == [l \in LCards |-> l \notin {7, 9}]

\* a card or landscape object before the builder has tagged it
Untagged == [set |-> "", type |-> ""]

Init ==
    /\ yamlPickTimes = StoredPickTimes
    /\ yamlToPick \in {f \in [KCards \cup LCards -> BOOLEAN] :
                          \A l \in LCards : f[l] = LandscapeToPick[l]}
    /\ yamlStatus \in [Range(SetNames) -> {"ok", "missing", "malformed"}]
    /\ tags = [c \in KCards \cup LCards |-> Untagged]
    /\ reroll_answ = <<>>
    /\ yamlLandscapes \in {LCards \ {l \in LCards : LType(l) \in missing} :
                              missing \in {{}, {"prophecy"}, {"ally", "prophecy"}}}
    /\ randpiles = [kingdoms |-> <<>>, landscapes |-> <<>>, allies |-> <<>>,
                    prophecies |-> <<>>]
    /\ pickTimes = yamlPickTimes
    /\ picked = [kingdoms |-> <<>>, landscapes |-> <<>>]
    /\ weights = <<>>
    /\ primaryCount = 0
    /\ num_kingdom = 0
    /\ num_landscape = 0
    /\ alchemyCards = 0
    /\ numCardsPicked = 0
    /\ kc = None
    /\ rc = "NOTHING"
    /\ ally_card = None
    /\ prophecy_card = None
    /\ ki = 0
    /\ removed = {}
    /\ pc = "load"
    /\ err = ""

\* ---------------------------------------------------------- the pile builder
\* the kingdom cards of all files, in file order, that are to be picked
RECURSIVE LoadKingdoms(_)
LoadKingdoms(sets) ==
    IF sets = <<>> THEN <<>>
    ELSE Filter(DSetCards(Head(sets)), {c \in KCards : yamlToPick[c]})
           \o LoadKingdoms(Tail(sets))

\* a builder that puts every landscape card on every pile
RECURSIVE LoadLandscapes_NoTypeTest(_, _)
LoadLandscapes_NoTypeTest(sets, types) ==
    IF sets = <<>> THEN <<>>
    ELSE Filter(DSetLandscapes(Head(sets)), yamlLandscapes)
           \o LoadLandscapes_NoTypeTest(Tail(sets), types)

\* the landscape cards of all files, in file order, whose type is in types
RECURSIVE LoadLandscapes(_, _)
LoadLandscapes(sets, types) ==
    IF sets = <<>> THEN <<>>
    ELSE Filter(DSetLandscapes(Head(sets)),
                {l \in yamlLandscapes : LType(l) \in types})
           \o LoadLandscapes(Tail(sets), types)

\* the set and type keys the builder adds to the objects of the files
RECURSIVE TagAll(_, _)
TagAll(sets, t) ==
    IF sets = <<>> THEN t
    ELSE LET setname == Head(sets)
             kcards == Range(DSetCards(setname))
             landscapes == Range(DSetLandscapes(setname)) \cap yamlLandscapes
         IN  TagAll(Tail(sets),
                    [c \in DOMAIN t |->
                       IF c \in kcards THEN [t[c] EXCEPT !.set = setname]
                       ELSE IF c \in landscapes
                            THEN [set |-> setname, type |-> LType(c)]
                       ELSE t[c]])

\* a builder that carries on with the next file when one is missing
FirstUnreadable_SkipMissing(sets) ==
    LET bad == {i \in 1..Len(sets) : yamlStatus[sets[i]] = "malformed"}
    IN  IF bad = {} THEN 0 ELSE CHOOSE i \in bad : \A j \in bad : i <= j

\* position of the first file on which open() or yaml.load() raises, 0 if none
FirstUnreadable(sets) ==
    LET bad == {i \in 1..Len(sets) : yamlStatus[sets[i]] # "ok"}
    IN  IF bad = {} THEN 0 ELSE CHOOSE i \in bad : \A j \in bad : i <= j

\* create_randomizer_piles(l_args)
create_randomizer_piles ==
    /\ pc = "load"
    /\ FirstUnreadable(SetNames) = 0
    /\ tags' = TagAll(SetNames, tags)
    /\ randpiles' = [kingdoms |-> LoadKingdoms(SetNames),
                     landscapes |-> LoadLandscapes(SetNames, {"event", "way"}),
                     allies |-> LoadLandscapes(SetNames, {"ally"}),
                     prophecies |-> LoadLandscapes(SetNames, {"prophecy"})]
    /\ pc' = "call"
    /\ UNCHANGED <<yamlPickTimes, yamlToPick, yamlLandscapes, yamlStatus, reroll_answ, pickTimes,
                   picked, weights, primaryCount, num_kingdom, num_landscape,
                   alchemyCards, numCardsPicked, kc, rc, ally_card, prophecy_card, ki,
                   removed, err>>

\* create_randomizer_piles when a file cannot be read: the exception leaves
\* dwcp() before any pile is returned
LoadCrash ==
    /\ pc = "load"
    /\ FirstUnreadable(SetNames) # 0
    /\ pc' = "error"
    /\ err' = IF yamlStatus[SetNames[FirstUnreadable(SetNames)]] = "missing"
              THEN "FileNotFoundError: open" ELSE "YAMLError: load"
    /\ UNCHANGED <<yamlPickTimes, yamlToPick, yamlLandscapes, yamlStatus, tags, reroll_answ,
                   randpiles, pickTimes, picked, weights, primaryCount, num_kingdom,
                   num_landscape, alchemyCards, numCardsPicked, kc, rc, ally_card,
                   prophecy_card, ki, removed>>

\* ------------------------------------------------------------- the selector
\* pick_random_cards(randpiles, num_kingdom, num_landscape) up to the first draw
pick_random_cards ==
    /\ pc = "call"
    /\ \E nk \in 1..MaxKingdom :
          /\ primaryCount' = nk
          /\ num_kingdom' = nk
    /\ picked' = [kingdoms |-> <<>>, landscapes |-> <<>>]
    /\ IF randpiles.kingdoms # <<>>
       THEN /\ weights' = [i \in 1..Len(randpiles.kingdoms) |->
                              Weight(pickTimes[randpiles.kingdoms[i]])]
            /\ alchemyCards' = 0
            /\ numCardsPicked' = 0
            /\ pc' = "draw"
       ELSE /\ UNCHANGED <<weights, alchemyCards, numCardsPicked>>
            /\ pc' = "landscapes"
    /\ UNCHANGED <<yamlPickTimes, yamlToPick, yamlLandscapes, yamlStatus, tags, reroll_answ, randpiles, pickTimes,
                   num_landscape, kc, rc, ally_card, prophecy_card, ki, removed, err>>

\* an accepted draw that is appended and never sorted
AcceptInto_AppendOnly(list, card, roundDone) == Append(list, card)

\* picked["kingdoms"] once a draw is accepted: appended, and sorted by name
\* when the draw completes the round
AcceptInto(list, card, roundDone) ==
    IF roundDone THEN SortByName(Append(list, card)) ELSE Append(list, card)

\* an accepted draw that pops the neighbour of the drawn card
PoolAfterAccept_Neighbour(pool, selected_idx) == Pop(pool, (selected_idx + 1) % Len(pool))

\* randpiles["kingdoms"] after an accepted draw of the card at selected_idx
PoolAfterAccept(pool, selected_idx) == Pop(pool, selected_idx)

\* a refused draw that pops the drawn card all the same
PoolAfterReject_Pop(pool, selected_idx) == Pop(pool, selected_idx)

\* randpiles["kingdoms"] after a draw the cap rule refused
PoolAfterReject(pool, selected_idx) == pool

\* an accepted draw that pops the last entry of the weight table
WeightsAfterAccept_Last(table, selected_idx) == Pop(table, Len(table) - 1)

\* weights.pop(selected_idx)
WeightsAfterAccept(table, selected_idx) == Pop(table, selected_idx)

\* one pass of the inner loop whose draw the cap rule lets through
DrawAccept ==
    /\ pc = "draw"
    /\ \E i \in 1..Len(randpiles.kingdoms) :
          /\ Positive(weights[i])
          /\ LET card == randpiles.kingdoms[i]
                 selected_idx == IndexOf(randpiles.kingdoms, card)
                 verdict == alchemy_card_check(card, Len(picked.kingdoms), alchemyCards)
                 roundDone == numCardsPicked + 1 >= num_kingdom
             IN  /\ verdict # "CONTINUE"
                 /\ kc' = IF roundDone THEN None ELSE card
                 /\ rc' = IF roundDone THEN "NOTHING" ELSE verdict
                 /\ alchemyCards' = IF verdict = "ALCHEMY" THEN alchemyCards + 1
                                    ELSE alchemyCards
                 /\ picked' = [picked EXCEPT
                                  !.kingdoms = AcceptInto(@, card, roundDone)]
                 /\ randpiles' = [randpiles EXCEPT
                                     !.kingdoms = PoolAfterAccept(@, selected_idx)]
                 /\ weights' = WeightsAfterAccept(weights, selected_idx)
                 /\ numCardsPicked' = numCardsPicked + 1
                 /\ pc' = IF roundDone THEN "prompt" ELSE "draw"
    /\ UNCHANGED <<yamlPickTimes, yamlToPick, yamlLandscapes, yamlStatus, tags, reroll_answ, pickTimes, primaryCount,
                   num_kingdom, num_landscape, ally_card, prophecy_card, ki, removed, err>>

\* one pass of the inner loop whose draw the cap rule refuses ("continue")
DrawReject ==
    /\ pc = "draw"
    /\ \E i \in 1..Len(randpiles.kingdoms) :
          /\ Positive(weights[i])
          /\ LET card == randpiles.kingdoms[i]
                 selected_idx == IndexOf(randpiles.kingdoms, card)
                 verdict == alchemy_card_check(card, Len(picked.kingdoms), alchemyCards)
             IN  /\ verdict = "CONTINUE"
                 /\ kc' = card
                 /\ rc' = verdict
                 /\ randpiles' = [randpiles EXCEPT
                                     !.kingdoms = PoolAfterReject(@, selected_idx)]
    /\ UNCHANGED <<yamlPickTimes, yamlToPick, yamlLandscapes, yamlStatus, tags, reroll_answ, pickTimes, picked, weights,
                   primaryCount, num_kingdom, num_landscape, alchemyCards,
                   numCardsPicked, ally_card, prophecy_card, ki, removed, pc, err>>

\* random.choices on an emptied pile raises IndexError
DrawEmpty ==
    /\ pc = "draw"
    /\ randpiles.kingdoms = <<>>
    /\ pc' = "error"
    /\ err' = "IndexError: choices"
    /\ UNCHANGED <<yamlPickTimes, yamlToPick, yamlLandscapes, yamlStatus, tags, reroll_answ, randpiles, pickTimes,
                   picked, weights, primaryCount, num_kingdom, num_landscape,
                   alchemyCards, numCardsPicked, kc, rc, ally_card, prophecy_card, ki,
                   removed>>

\* --------------------------------------------------------- the reroll pass
\* The tokens of str.split(console.input(...)): decimal numerals and a word
\* that is no number.
Digits == <<"0", "1", "2", "3", "4", "5", "6", "7", "8", "9">>

Tokens(len) == {"x"} \cup {Digits[n + 1] : n \in 0..(len + 1)}

\* the responses an operator may give when shown a list of len cards
Responses(len) == UNION {[1..n -> Tokens(len)] : n \in 0..MaxAnsw}

\* whether int(token) succeeds, and its value
IsNumeric(token) == \E n \in 0..9 : Digits[n + 1] = token
IntOf(token) == CHOOSE n \in 0..9 : Digits[n + 1] = token

\* list[idx] for a Python index: negative ones count from the end
InRange(list, idx) == -Len(list) <= idx /\ idx < Len(list)
PyGet(list, idx) == IF idx >= 0 THEN list[idx + 1] ELSE list[Len(list) + idx + 1]

\* position of the first token on which the names loop raises, 0 if none
FirstBad(answ, list) ==
    LET bad == {k \in 1..Len(answ) :
                   \/ ~IsNumeric(answ[k])
                   \/ ~InRange(list, IntOf(answ[k]) - 1)}
    IN  IF bad = {} THEN 0 ELSE CHOOSE k \in bad : \A j \in bad : k <= j

\* names: the name shown at each entered position
NamesOf(answ, list) ==
    [k \in 1..Len(answ) |-> CardName(PyGet(list, IntOf(answ[k]) - 1))]

\* the inner removal loop: pop the first picked card that carries the name
RemoveName(list, name) ==
    IF \E j \in 1..Len(list) : CardName(list[j]) = name
    THEN LET j == CHOOSE j \in 1..Len(list) :
                     /\ CardName(list[j]) = name
                     /\ \A k \in 1..(j - 1) : CardName(list[k]) # name
         IN  Pop(list, IndexOf(list, list[j]))
    ELSE list

RECURSIVE RemoveNames(_, _)
RemoveNames(list, names) ==
    IF names = <<>> THEN list
    ELSE RemoveNames(RemoveName(list, Head(names)), Tail(names))

\* a reroll that puts the cards it removed back on the kingdom pile
PoolAfterReroll_PutBack(pool, list, left) ==
    pool \o Filter(list, Range(list) \ Range(left))

\* randpiles["kingdoms"] after the removal loop: the loop pops from
\* picked["kingdoms"] only, the pile is not touched
PoolAfterReroll(pool, list, left) == pool

\* num_kingdom = len(answ)
RedrawCount(answ) == Len(answ)

\* an empty response ends the reroll pass
RerollDone ==
    /\ pc = "prompt"
    /\ ally_card' = None
    /\ prophecy_card' = None
    /\ ki' = 1
    /\ pc' = IF picked.kingdoms = <<>> THEN "landscapes" ELSE "scan"
    /\ UNCHANGED <<yamlPickTimes, yamlToPick, yamlLandscapes, yamlStatus, tags, reroll_answ, randpiles, pickTimes,
                   picked, weights, primaryCount, num_kingdom, num_landscape,
                   alchemyCards, numCardsPicked, kc, rc, removed, err>>

\* a response of indices: the named cards leave the list, a new round starts
Reroll ==
    /\ pc = "prompt"
    /\ \E answ \in Responses(Len(picked.kingdoms)) :
          /\ answ # <<>>
          /\ FirstBad(answ, picked.kingdoms) = 0
          /\ LET left == RemoveNames(picked.kingdoms, NamesOf(answ, picked.kingdoms))
             IN  /\ num_kingdom' = RedrawCount(answ)
                 /\ picked' = [picked EXCEPT !.kingdoms = left]
                 /\ randpiles' = [randpiles EXCEPT !.kingdoms =
                                     PoolAfterReroll(@, picked.kingdoms, left)]
                 /\ removed' = removed \cup (Range(picked.kingdoms) \ Range(left))
    /\ numCardsPicked' = 0
    /\ pc' = "draw"
    /\ UNCHANGED <<yamlPickTimes, yamlToPick, yamlLandscapes, yamlStatus, tags, reroll_answ, pickTimes,
                   weights, primaryCount, num_landscape, alchemyCards, kc, rc,
                   ally_card, prophecy_card, ki, err>>

\* a response with a token int() refuses or an index outside the list
RerollCrash ==
    /\ pc = "prompt"
    /\ \E answ \in Responses(Len(picked.kingdoms)) :
          /\ FirstBad(answ, picked.kingdoms) # 0
          /\ num_kingdom' = RedrawCount(answ)
          /\ err' = IF IsNumeric(answ[FirstBad(answ, picked.kingdoms)])
                    THEN "IndexError: picked" ELSE "ValueError: int"
    /\ pc' = "error"
    /\ UNCHANGED <<yamlPickTimes, yamlToPick, yamlLandscapes, yamlStatus, tags, reroll_answ, randpiles, pickTimes,
                   picked, weights, primaryCount, num_landscape, alchemyCards,
                   numCardsPicked, kc, rc, ally_card, prophecy_card, ki, removed>>

\* ------------------------------------------------- the Liaison / Omen scan
\* an increment by two
Bump_Twice(pt, card) == [pt EXCEPT ![card] = @ + 2]

\* kcard['pickTimes'] += 1
Bump(pt, card) == [pt EXCEPT ![card] = @ + 1]

\* the Ally test without "ally_card == None"
WantsAlly_Always(card, ally) == IsLiaison(card)

\* "ally_card == None and kcard.get('isLiaison')"
WantsAlly(card, ally) == ally = None /\ IsLiaison(card)

\* "prophecy_card == None and kcard.get('isOmen')"
WantsProphecy(card, prophecy) == prophecy = None /\ IsOmen(card)

\* a scan that appends the Prophecy before the Ally of the same card
Specials_ProphecyFirst(wantAlly, a, wantProphecy, p) ==
    (IF wantProphecy THEN <<p>> ELSE <<>>) \o (IF wantAlly THEN <<a>> ELSE <<>>)

\* what one card of the scan appends to picked["landscapes"]: the Ally test
\* and its append come before the Prophecy test and its append
Specials(wantAlly, a, wantProphecy, p) ==
    (IF wantAlly THEN <<a>> ELSE <<>>) \o (IF wantProphecy THEN <<p>> ELSE <<>>)

\* one pass of the loop over picked["kingdoms"]
ScanStep ==
    /\ pc = "scan"
    /\ ki \in 1..Len(picked.kingdoms)
    /\ LET card == picked.kingdoms[ki]
           wantAlly == WantsAlly(card, ally_card)
           wantProphecy == WantsProphecy(card, prophecy_card)
       IN  /\ wantAlly => randpiles.allies # <<>>
           /\ wantProphecy => randpiles.prophecies # <<>>
           /\ pickTimes' = Bump(pickTimes, card)
           /\ \E a \in (IF wantAlly THEN Range(randpiles.allies) ELSE {None}),
                 p \in (IF wantProphecy THEN Range(randpiles.prophecies) ELSE {None}) :
                 /\ ally_card' = IF wantAlly THEN a ELSE ally_card
                 /\ prophecy_card' = IF wantProphecy THEN p ELSE prophecy_card
                 /\ picked' = [picked EXCEPT !.landscapes =
                                  @ \o Specials(wantAlly, a, wantProphecy, p)]
    /\ ki' = ki + 1
    /\ pc' = IF ki = Len(picked.kingdoms) THEN "landscapes" ELSE "scan"
    /\ UNCHANGED <<yamlPickTimes, yamlToPick, yamlLandscapes, yamlStatus, tags, reroll_answ, randpiles, weights,
                   primaryCount, num_kingdom, num_landscape, alchemyCards,
                   numCardsPicked, kc, rc, removed, err>>

\* random.choice on an empty allies or prophecies pile raises IndexError
ScanCrash ==
    /\ pc = "scan"
    /\ ki \in 1..Len(picked.kingdoms)
    /\ LET card == picked.kingdoms[ki]
           wantAlly == WantsAlly(card, ally_card)
           wantProphecy == WantsProphecy(card, prophecy_card)
       IN  /\ pickTimes' = Bump(pickTimes, card)
           /\ \/ /\ wantAlly
                 /\ randpiles.allies = <<>>
                 /\ UNCHANGED <<ally_card, picked>>
              \/ /\ wantAlly
                 /\ randpiles.allies # <<>>
                 /\ wantProphecy
                 /\ randpiles.prophecies = <<>>
                 /\ \E a \in Range(randpiles.allies) :
                       /\ ally_card' = a
                       /\ picked' = [picked EXCEPT !.landscapes = Append(@, a)]
              \/ /\ ~wantAlly
                 /\ wantProphecy
                 /\ randpiles.prophecies = <<>>
                 /\ UNCHANGED <<ally_card, picked>>
    /\ pc' = "error"
    /\ err' = "IndexError: choice"
    /\ UNCHANGED <<yamlPickTimes, yamlToPick, yamlLandscapes, yamlStatus, tags, reroll_answ, randpiles, weights,
                   primaryCount, num_kingdom, num_landscape, alchemyCards,
                   numCardsPicked, kc, rc, prophecy_card, ki, removed>>

\* ------------------------------------------------------ the landscape draw
\* a sample drawn with replacement
Samples_WithReplacement(population, k) == [1..k -> Range(population)]

\* random.sample(population, k): k different entries in a random order
Samples(population, k) ==
    {s \in [1..k -> Range(population)] : \A i, j \in 1..k : i # j => s[i] # s[j]}

Min(a, b) == IF a <= b THEN a ELSE b

\* the landscape draw and the return of picked
PickLandscapes ==
    /\ pc = "landscapes"
    /\ \E nl \in 0..(LandscapeRange - 1) :
          /\ num_landscape' = nl
          /\ IF randpiles.landscapes # <<>> /\ nl > 0
             THEN \E landscape_cards \in
                        Samples(randpiles.landscapes, Min(nl, Len(randpiles.landscapes))) :
                     picked' = [picked EXCEPT !.landscapes = @ \o landscape_cards]
             ELSE UNCHANGED picked
    /\ pc' = "done"
    /\ UNCHANGED <<yamlPickTimes, yamlToPick, yamlLandscapes, yamlStatus, tags, reroll_answ, randpiles, pickTimes,
                   weights, primaryCount, num_kingdom, alchemyCards, numCardsPicked, kc,
                   rc, ally_card, prophecy_card, ki, removed, err>>

\* ---------------------------------------------------------------- the save
\* the inner loops of save_picked_cards on the cards of one file: the first
\* card of the file that carries the name of a selected card takes its pickTimes
RECURSIVE SaveCards(_, _, _, _)
SaveCards(stored, cards, selection, pt) ==
    IF selection = <<>> THEN stored
    ELSE LET scard == Head(selection)
             hits == {j \in 1..Len(cards) : CardName(cards[j]) = CardName(scard)}
             first == CHOOSE j \in hits : \A k \in hits : j <= k
         IN  SaveCards(IF hits = {} THEN stored
                       ELSE [stored EXCEPT ![cards[first]] = pt[scard]],
                       cards, Tail(selection), pt)

\* save_picked_cards(selection): every file in turn
RECURSIVE save_picked_cards(_, _, _, _)
save_picked_cards(stored, sets, selection, pt) ==
    IF sets = <<>> THEN stored
    ELSE save_picked_cards(SaveCards(stored, DSetCards(Head(sets)), selection, pt),
                           Tail(sets), selection, pt)

\* the answers an operator may give to "Do you want to save ... (y/N)"
SaveAnswers == {"y", "Y", "yes", "n", ""}

\* a prompt that saves whatever the answer
StoredAfter_AnyAnswer(a, stored, selection, pt) ==
    save_picked_cards(stored, SetNames, selection, pt)

\* the files after the prompt: "if answ == 'y': save_picked_cards(selected)"
StoredAfter(a, stored, selection, pt) ==
    IF a = "y" THEN save_picked_cards(stored, SetNames, selection, pt) ELSE stored

\* the end of dwcp(): the save prompt and what follows from the answer
SavePrompt ==
    /\ pc = "done"
    /\ \E a \in SaveAnswers :
          /\ yamlPickTimes' = StoredAfter(a, yamlPickTimes, picked.kingdoms, pickTimes)
          /\ pc' = IF a = "y" THEN "saved" ELSE "exit"
    /\ UNCHANGED <<yamlToPick, yamlLandscapes, yamlStatus, tags, reroll_answ, randpiles,
                   pickTimes, picked, weights, primaryCount, num_kingdom, num_landscape,
                   alchemyCards, numCardsPicked, kc, rc, ally_card, prophecy_card, ki,
                   removed, err>>

Next ==
    \/ create_randomizer_piles
    \/ LoadCrash
    \/ pick_random_cards
    \/ DrawAccept
    \/ DrawReject
    \/ DrawEmpty
    \/ RerollDone
    \/ Reroll
    \/ RerollCrash
    \/ ScanStep
    \/ ScanCrash
    \/ PickLandscapes
    \/ SavePrompt

Spec == Init /\ [][Next]_vars

\* ------------------------------------- the reroll pass, response by response
\* The same run with the prompt in two steps, the response read (line 361)
\* and then processed (lines 362-380), for files that are all readable and
\* mark every kingdom card as to be picked.
RerollInit ==
    /\ Init
    /\ \A c \in KCards : yamlToPick[c]
    /\ \A setname \in Range(SetNames) : yamlStatus[setname] = "ok"

\* answ = str.split(console.input(...))
ReadResponse ==
    /\ pc = "prompt"
    /\ reroll_answ' \in Responses(Len(picked.kingdoms))
    /\ pc' = "reroll"
    /\ UNCHANGED <<yamlPickTimes, yamlToPick, yamlLandscapes, yamlStatus, tags, randpiles,
                   pickTimes, picked, weights, primaryCount, num_kingdom, num_landscape,
                   alchemyCards, numCardsPicked, kc, rc, ally_card, prophecy_card, ki,
                   removed, err>>

\* "if len(answ) == 0: break"
ProcessEmpty ==
    /\ pc = "reroll"
    /\ reroll_answ = <<>>
    /\ ally_card' = None
    /\ prophecy_card' = None
    /\ ki' = 1
    /\ pc' = IF picked.kingdoms = <<>> THEN "landscapes" ELSE "scan"
    /\ UNCHANGED <<yamlPickTimes, yamlToPick, yamlLandscapes, yamlStatus, tags, reroll_answ,
                   randpiles, pickTimes, picked, weights, primaryCount, num_kingdom,
                   num_landscape, alchemyCards, numCardsPicked, kc, rc, removed, err>>

\* the names loop and the removal loop on the response read
ProcessReroll ==
    /\ pc = "reroll"
    /\ reroll_answ # <<>>
    /\ FirstBad(reroll_answ, picked.kingdoms) = 0
    /\ LET left == RemoveNames(picked.kingdoms, NamesOf(reroll_answ, picked.kingdoms))
       IN  /\ num_kingdom' = RedrawCount(reroll_answ)
           /\ picked' = [picked EXCEPT !.kingdoms = left]
           /\ randpiles' = [randpiles EXCEPT !.kingdoms =
                               PoolAfterReroll(@, picked.kingdoms, left)]
           /\ removed' = removed \cup (Range(picked.kingdoms) \ Range(left))
    /\ numCardsPicked' = 0
    /\ reroll_answ' = <<>>
    /\ pc' = "draw"
    /\ UNCHANGED <<yamlPickTimes, yamlToPick, yamlLandscapes, yamlStatus, tags,
                   pickTimes, weights, primaryCount, num_landscape, alchemyCards, kc, rc,
                   ally_card, prophecy_card, ki, err>>

\* the names loop raising on the response read
ProcessCrash ==
    /\ pc = "reroll"
    /\ FirstBad(reroll_answ, picked.kingdoms) # 0
    /\ num_kingdom' = RedrawCount(reroll_answ)
    /\ err' = IF IsNumeric(reroll_answ[FirstBad(reroll_answ, picked.kingdoms)])
              THEN "IndexError: picked" ELSE "ValueError: int"
    /\ reroll_answ' = <<>>
    /\ pc' = "error"
    /\ UNCHANGED <<yamlPickTimes, yamlToPick, yamlLandscapes, yamlStatus, tags, randpiles,
                   pickTimes, picked, weights, primaryCount, num_landscape, alchemyCards,
                   numCardsPicked, kc, rc, ally_card, prophecy_card, ki, removed>>

RerollNext ==
    \/ create_randomizer_piles
    \/ pick_random_cards
    \/ DrawAccept
    \/ DrawReject
    \/ DrawEmpty
    \/ ReadResponse
    \/ ProcessEmpty
    \/ ProcessReroll
    \/ ProcessCrash
    \/ ScanStep
    \/ ScanCrash
    \/ PickLandscapes
    \/ SavePrompt

RerollSpec == RerollInit /\ [][RerollNext]_vars

\* ------------------------------------------------------------------ claims
NoDup(s) == \A i, j \in 1..Len(s) : i # j => s[i] # s[j]

\* how many cards of a list belong to the set "alchemy"
AlchemyIn(s) == Cardinality({i \in 1..Len(s) : CardSet(s[i]) = "alchemy"})

\* how many landscape cards of a list have the given type
TypeIn(s, type) == Cardinality({i \in 1..Len(s) : LType(s[i]) = type})

\* the Alchemy cards in the kingdom pile when the run starts
Available == AlchemyIn(LoadKingdoms(SetNames))

\* C1: no card occurs twice in picked["kingdoms"], none twice in
\* picked["landscapes"] and none in both, at every point of a run and so in
\* the selection it returns.
C1_NoDuplicates == NoDup(picked.kingdoms \o picked.landscapes)

C1_Witness ==
    /\ pc = "done"
    /\ removed # {}
    /\ Len(picked.kingdoms) >= 3
    /\ Len(picked.landscapes) >= 3

\* C2: until the operator ends the reroll pass with an empty response no
\* pickTimes differs from the stored value; when the selector returns, the
\* cards whose pickTimes differs are exactly those of picked["kingdoms"],
\* each larger by exactly 1.
C2_PickTimesFrame ==
    /\ pc \in {"load", "call", "draw", "prompt"} => pickTimes = yamlPickTimes
    /\ pc = "done" =>
          \A c \in KCards \cup LCards :
             pickTimes[c] = yamlPickTimes[c]
                              + (IF c \in Range(picked.kingdoms) THEN 1 ELSE 0)

C2_Witness ==
    /\ pc = "done"
    /\ Cardinality(removed) >= 2
    /\ randpiles.kingdoms # <<>>
    /\ ally_card # None
    /\ TypeIn(picked.landscapes, "event") = 1
    /\ \E c \in Range(picked.kingdoms) : pickTimes[c] = yamlPickTimes[c] + 1

\* C3 as claimed: a returned selection holds at most 3 Alchemy cards.
C3_AtMostMaxAlchemy == pc = "done" => AlchemyIn(picked.kingdoms) <= AlchemyMax

\* C3 amended: the cap counter, the number of cards accepted as Alchemy cards
\* by the rule, never exceeds 3; a selection holds more than 3 Alchemy cards
\* only when the counter has reached 3 and the rule accepts every card.
C3_CounterAtMostMax ==
    /\ alchemyCards \in 0..AlchemyMax
    /\ AlchemyIn(picked.kingdoms) > AlchemyMax => alchemyCards = AlchemyMax

C3_Witness == pc = "done" /\ AlchemyIn(picked.kingdoms) > AlchemyMax

AllRefused ==
    /\ randpiles.kingdoms # <<>>
    /\ \A i \in 1..Len(randpiles.kingdoms) :
          alchemy_card_check(randpiles.kingdoms[i], Len(picked.kingdoms), alchemyCards)
             = "CONTINUE"

\* C5: when the cap rule refuses every card left in the pile, the selector
\* has raised an error; it is not in the draw loop, about to draw again.
C5_RaisesWhenAllRefused == AllRefused => pc # "draw"

\* C6: a run does not return a selection when num_kingdom exceeds the number
\* of cards in the kingdom pile.
C6_NoSelectionWhenShort == pc = "done" => primaryCount <= Len(LoadKingdoms(SetNames))

\* a pass of the inner draw loop that ends without an exception
DrawStep == pc = "draw" /\ pc' \in {"draw", "prompt"}

C8_RoundFillsList == pc = "prompt" => Len(picked.kingdoms) = primaryCount

\* C9: a response with a token that is no number, or an index outside the
\* list, never ends the run with an error.
C9_BadResponseNoError ==
    ~(pc = "error" /\ err \in {"ValueError: int", "IndexError: picked"})

\* C10: picked["landscapes"] never holds more than one Ally or more than one
\* Prophecy; none is drawn before the reroll pass has ended; during the scan
\* the Ally (Prophecy) has been drawn exactly when the scan has passed a
\* Liaison (Omen) card of the final list, so the draw is made at the first
\* such card; and a run whose final list has no such card returns none, also
\* when a reroll discarded one.
C10_OneDrawPerFlag ==
    /\ TypeIn(picked.landscapes, "ally") <= 1
    /\ TypeIn(picked.landscapes, "prophecy") <= 1
    /\ pc \in {"load", "call", "draw", "prompt"} => picked.landscapes = <<>>
    /\ pc \in {"scan", "landscapes", "done"} =>
          LET passed == IF pc = "scan" THEN ki - 1 ELSE Len(picked.kingdoms)
          IN  /\ TypeIn(picked.landscapes, "ally") = 1
                    <=> \E j \in 1..passed : IsLiaison(picked.kingdoms[j])
              /\ TypeIn(picked.landscapes, "prophecy") = 1
                    <=> \E j \in 1..passed : IsOmen(picked.kingdoms[j])
              /\ (ally_card # None) <=> TypeIn(picked.landscapes, "ally") = 1
              /\ (prophecy_card # None) <=> TypeIn(picked.landscapes, "prophecy") = 1

C10_Witness ==
    /\ pc = "done"
    /\ Cardinality({j \in 1..Len(picked.kingdoms) : IsLiaison(picked.kingdoms[j])}) >= 2
    /\ TypeIn(picked.landscapes, "ally") = 1
    /\ \E c \in removed : IsOmen(c)
    /\ \A j \in 1..Len(picked.kingdoms) : ~IsOmen(picked.kingdoms[j])
    /\ prophecy_card = None

\* the run has returned from pick_random_cards
Returned == pc \in {"done", "saved", "exit"}

\* the entries of a list of landscape cards that are no Ally and no Prophecy
Sampled(s) == Filter(s, {l \in LCards : LType(l) \notin {"ally", "prophecy"}})

FirstIn(s, good) ==
    IF \E j \in 1..Len(s) : s[j] \in good
    THEN CHOOSE j \in 1..Len(s) : s[j] \in good /\ \A k \in 1..(j - 1) : s[k] \notin good
    ELSE 0

\* C12: in the returned picked["landscapes"] the Ally and the Prophecy precede
\* every sampled landscape card, and the Ally precedes the Prophecy exactly
\* when the scan of the final picked["kingdoms"] meets a Liaison card no later
\* than an Omen card.
C12_SpecialsFirstInScanOrder ==
    Returned =>
       LET ls == picked.landscapes
           special == {l \in LCards : LType(l) \in {"ally", "prophecy"}}
           liaison == FirstIn(picked.kingdoms, {c \in KCards : IsLiaison(c)})
           omen == FirstIn(picked.kingdoms, {c \in KCards : IsOmen(c)})
       IN  /\ \A i, j \in 1..Len(ls) :
                 (ls[i] \in special /\ ls[j] \notin special) => i < j
           /\ \A i, j \in 1..Len(ls) :
                 (LType(ls[i]) = "ally" /\ LType(ls[j]) = "prophecy") =>
                    (i < j <=> liaison <= omen)

C12_Witness ==
    /\ pc = "done"
    /\ Len(picked.landscapes) = 4
    /\ LType(picked.landscapes[1]) = "prophecy"
    /\ LType(picked.landscapes[2]) = "ally"

\* C13: whenever a draw round is complete, and so when the selector returns,
\* picked["kingdoms"] is in ascending order of name, reroll rounds included.
C13_SortedByName ==
    pc \in {"prompt", "scan", "landscapes", "done", "saved", "exit"} =>
       \A i, j \in 1..Len(picked.kingdoms) :
          i < j => CardName(picked.kingdoms[i]) <= CardName(picked.kingdoms[j])

C13_Witness ==
    /\ pc = "done"
    /\ removed # {}
    /\ Len(picked.kingdoms) >= 3
    /\ num_kingdom < Len(picked.kingdoms)

\* C14: no pile of the builder holds a card or landscape card whose toPick is
\* false.
C14_NoIneligibleInPiles ==
    \A c \in Range(randpiles.kingdoms) \cup Range(randpiles.landscapes)
             \cup Range(randpiles.allies) \cup Range(randpiles.prophecies) :
       yamlToPick[c]

\* the file that lists a card, and the card's place in the order of the files
FileOf(c) ==
    CHOOSE setname \in Range(SetNames) :
       c \in Range(DSetCards(setname)) \cup Range(DSetLandscapes(setname))

PlaceOf(c) ==
    LET file == CHOOSE i \in 1..Len(SetNames) : SetNames[i] = FileOf(c)
        records == DSetCards(FileOf(c)) \o DSetLandscapes(FileOf(c))
    IN  <<file, CHOOSE j \in 1..Len(records) : records[j] = c>>

Before(c, d) ==
    \/ PlaceOf(c)[1] < PlaceOf(d)[1]
    \/ PlaceOf(c)[1] = PlaceOf(d)[1] /\ PlaceOf(c)[2] < PlaceOf(d)[2]

\* C15: once built, every listed landscape card is on exactly one of the
\* piles landscapes, allies and prophecies: on allies exactly when its type is
\* "ally", on prophecies exactly when it is "prophecy", on landscapes
\* otherwise, and it carries its set and its type; the kingdom pile as built
\* holds exactly the kingdom cards with toPick true, each carrying its set, in
\* the order of the files and of the records in each file.
C15_PilesPartition ==
    /\ (pc # "load" /\ \A setname \in Range(SetNames) : yamlStatus[setname] = "ok") =>
          /\ \A l \in yamlLandscapes :
                /\ l \in Range(randpiles.allies) <=> LType(l) = "ally"
                /\ l \in Range(randpiles.prophecies) <=> LType(l) = "prophecy"
                /\ l \in Range(randpiles.landscapes) <=> LType(l) \notin {"ally", "prophecy"}
                /\ tags[l] = [set |-> FileOf(l), type |-> LType(l)]
          /\ Range(randpiles.landscapes \o randpiles.allies \o randpiles.prophecies)
                = yamlLandscapes
          /\ NoDup(randpiles.landscapes \o randpiles.allies \o randpiles.prophecies)
          /\ \A c \in Range(randpiles.kingdoms) : tags[c].set = FileOf(c)
    /\ pc = "call" =>
          /\ Range(randpiles.kingdoms) = {c \in KCards : yamlToPick[c]}
          /\ \A i, j \in 1..Len(randpiles.kingdoms) :
                i < j => Before(randpiles.kingdoms[i], randpiles.kingdoms[j])

C15_Witness ==
    /\ pc = "call"
    /\ Len(randpiles.kingdoms) >= 3
    /\ \E c \in KCards : ~yamlToPick[c]
    /\ Len(randpiles.landscapes) = 2
    /\ Len(randpiles.allies) = 2
    /\ randpiles.prophecies # <<>>

C17_WrittenOnlyOnYes ==
    /\ pc # "saved" => yamlPickTimes = StoredPickTimes
    /\ pc = "saved" => err = ""

C17_Witness ==
    /\ pc = "exit"
    /\ picked.kingdoms # <<>>
    /\ pickTimes # yamlPickTimes

\* C18: the weight of every card left in the kingdom pile is 1/(pickTimes+1):
\* positive, 1 when pickTimes is 0, and never smaller than the weight of a
\* card with a larger pickTimes.
C18_WeightOfPickTimes ==
    pc \notin {"load", "call"} =>
       \A i \in 1..Len(randpiles.kingdoms) :
          LET w == weights[i]
              pt == pickTimes[randpiles.kingdoms[i]]
          IN  /\ Positive(w)
              /\ w.num * (pt + 1) = w.den
              /\ pt = 0 => w.num = w.den
              /\ \A j \in 1..Len(randpiles.kingdoms) :
                    pt <= pickTimes[randpiles.kingdoms[j]] =>
                       w.num * weights[j].den >= weights[j].num * w.den

C18_Witness ==
    /\ pc = "draw"
    /\ removed # {}
    /\ \E i, j \in 1..Len(randpiles.kingdoms) :
          /\ pickTimes[randpiles.kingdoms[i]] < pickTimes[randpiles.kingdoms[j]]
          /\ weights[i].den < weights[j].den

\* the four-branch rule with remainingSlots = primaryCount - accepted
RuleOfPrimaryCount(kingdomCard, accepted, capped, count) ==
    LET remainingSlots == count - accepted
    IN  IF capped >= AlchemyMax THEN "NOTHING"
        ELSE IF CardSet(kingdomCard) = "alchemy"
             THEN (IF AlchemyMin - capped <= remainingSlots THEN "ALCHEMY" ELSE "CONTINUE")
        ELSE IF capped < AlchemyStarted THEN "NOTHING"
        ELSE "CONTINUE"

\* C19: for every card the draw loop can draw, the verdict of
\* alchemy_card_check as called there is that of the four-branch rule with the
\* remaining slots counted from the num_kingdom passed to pick_random_cards.
C19_RuleOfPrimaryCount ==
    pc = "draw" =>
       \A i \in 1..Len(randpiles.kingdoms) :
          alchemy_card_check(randpiles.kingdoms[i], Len(picked.kingdoms), alchemyCards)
             = RuleOfPrimaryCount(randpiles.kingdoms[i], Len(picked.kingdoms),
                                  alchemyCards, primaryCount)

\* C20: processing a reroll response takes from picked["kingdoms"] exactly the
\* cards shown at the entered 1-based positions, and no other card.
C20_RemovesEnteredPositions ==
    [][(pc = "reroll" /\ pc' = "draw") =>
          LET shown == picked.kingdoms
              entered == {IntOf(reroll_answ[k]) : k \in 1..Len(reroll_answ)}
          IN  Range(picked'.kingdoms) =
                 Range(shown) \ {shown[n] : n \in entered \cap (1..Len(shown))}]_vars

\* C21: a card a reroll removed from picked["kingdoms"] is never again on the
\* kingdom pile nor in picked["kingdoms"], in any later state of the run.
C21_DiscardedNeverReturns ==
    /\ removed \cap Range(randpiles.kingdoms) = {}
    /\ removed \cap Range(picked.kingdoms) = {}

C21_Witness ==
    /\ pc = "done"
    /\ Cardinality(removed) >= 2
    /\ randpiles.kingdoms # <<>>
    /\ Len(picked.kingdoms) >= 2
    /\ \E c \in removed, d \in Range(picked.kingdoms) : CardName(c) = CardName(d)

\* C22: after the answer 'y' the files hold, for every card of
\* picked["kingdoms"], its stored pickTimes plus 1, and for every other card
\* and landscape card the pickTimes they held before.
C22_SaveWritesSelectedOnly ==
    pc = "saved" =>
       \A c \in KCards \cup LCards :
          yamlPickTimes[c] =
             StoredPickTimes[c] + (IF c \in Range(picked.kingdoms) THEN 1 ELSE 0)

\* C23: whenever the draw loop is about to draw, the cap counter is the
\* number of Alchemy cards in picked["kingdoms"], or 3 if there are more.
C23_CounterIsCurrentCount ==
    pc = "draw" => alchemyCards = Min(AlchemyMax, AlchemyIn(picked.kingdoms))

\* C24: no draw round completes with a cap counter of 1 or 2.
C24_NoPartialQuota ==
    pc = "prompt" => alchemyCards \notin AlchemyStarted..(AlchemyMin - 1)

\* C25: whenever the draw loop draws, the weight table is the table computed
\* afresh from the kingdom pile as it is: as long as the pile, entry by entry
\* the weight of the card at the same position.
C25_WeightsAligned ==
    pc \in {"draw", "prompt"} =>
       /\ Len(weights) = Len(randpiles.kingdoms)
       /\ weights = [i \in 1..Len(randpiles.kingdoms) |->
                        Weight(pickTimes[randpiles.kingdoms[i]])]

C25_Witness ==
    /\ pc = "draw"
    /\ removed # {}
    /\ rc = "CONTINUE"
    /\ Len(picked.kingdoms) >= 2
    /\ Len(randpiles.kingdoms) >= 2
    /\ \E i, j \in 1..Len(randpiles.kingdoms) : weights[i] # weights[j]

====
